---- MODULE Spec2Model ----
(***************************************************************************)
(* A model of epub-illustrator: process_epub (src/image_gen.py) and the    *)
(* helpers of src/utils.py.                                                *)
(*                                                                         *)
(* Text is a sequence of lexemes (strings).  The lexemes the code searches *)
(* for ("<!-- illustration:", "-->", " ", "\n") and the ones html.escape   *)
(* rewrites are single lexemes; PROSE stands for 399 characters of running *)
(* text that holds none of them.  A path is the sequence of its            *)
(* components below the extraction directory.                              *)
(***************************************************************************)
EXTENDS Integers, Sequences, FiniteSets, TLC

\* ------------------------------------------------------------------ bounds
\* how many times process_epub is started on the same cache directory
MaxRuns == 2
\* longest spine (number of itemref elements) of an input package
MaxSpine == 2
\* most markers the documents of one run come to hold
MaxMarkers == 2

\* --------------------------------------------------------- program constants
MinChars == 400
max_retries == 5
sleep_seconds == 5

\* ----------------------------------------------------------------- lexemes
OPEN == "<!-- illustration:"
CLOSE == "-->"
SP == " "
NL == "\n"
PROSE == "prose399"

\* len(): the number of characters a lexeme stands for
LexLen(t) ==
    CASE t = PROSE -> 399
      [] t = OPEN -> 18
      [] t = CLOSE -> 3
      [] t = "<p><img src='" -> 13
      [] t = "' alt='" -> 7
      [] t = "' /></p>" -> 8
      [] t = "Images" -> 6
      [] t = ".." -> 2
      [] t = "&amp;" -> 5
      [] t = "&lt;!-- illustration:" -> 21
      [] t = "--&gt;" -> 6
      [] t \in {"illustration_0.png", "illustration_1.png", "illustration_2.png",
                "illustration_3.png", "illustration_4.png", "illustration_5.png",
                "illustration_6.png", "illustration_7.png", "illustration_8.png",
                "illustration_9.png"} -> 18
      [] OTHER -> 1

RECURSIVE TextLen(_)
TextLen(s) == IF s = <<>> THEN 0 ELSE LexLen(Head(s)) + TextLen(Tail(s))

\* ------------------------------------------------------- string primitives
\* does sub occur in s at position i (1-based)
MatchAt(s, sub, i) ==
    /\ i >= 1
    /\ i + Len(sub) - 1 <= Len(s)
    /\ SubSeq(s, i, i + Len(sub) - 1) = sub

\* str.find from a position: the first position >= from where sub occurs, 0 if none
RECURSIVE Find(_, _, _)
Find(s, sub, from) ==
    IF from + Len(sub) - 1 > Len(s) THEN 0
    ELSE IF MatchAt(s, sub, from) THEN from
    ELSE Find(s, sub, from + 1)

\* the `in` operator on strings
Contains(s, sub) == Find(s, sub, 1) # 0

\* str.split('\n'): the pieces between the newlines, empty pieces kept
RECURSIVE Split(_)
Split(s) ==
    LET n == Find(s, <<NL>>, 1)
    IN  IF n = 0 THEN <<s>>
        ELSE <<SubSeq(s, 1, n - 1)>> \o Split(SubSeq(s, n + 1, Len(s)))

\* str.strip(): leading and trailing whitespace removed
RECURSIVE LStrip(_)
LStrip(s) == IF s # <<>> /\ Head(s) \in {SP, NL} THEN LStrip(Tail(s)) ELSE s

RECURSIVE RStrip(_)
RStrip(s) ==
    IF s # <<>> /\ s[Len(s)] \in {SP, NL} THEN RStrip(SubSeq(s, 1, Len(s) - 1)) ELSE s

Strip(s) == RStrip(LStrip(s))

\* str.replace(old, new): every non-overlapping occurrence, left to right
RECURSIVE Replace(_, _, _)
Replace(s, old, new) ==
    LET n == Find(s, old, 1)
    IN  IF n = 0 THEN s
        ELSE SubSeq(s, 1, n - 1) \o new
             \o Replace(SubSeq(s, n + Len(old), Len(s)), old, new)

\* html.escape of one lexeme (quote=True)
EscapeLex(t) ==
    CASE t = "&" -> "&amp;"
      [] t = "<" -> "&lt;"
      [] t = ">" -> "&gt;"
      [] t = "\"" -> "&quot;"
      [] t = "'" -> "&#x27;"
      [] t = OPEN -> "&lt;!-- illustration:"
      [] t = CLOSE -> "--&gt;"
      [] OTHER -> t

\* html.escape
HtmlEscape(s) == [n \in 1..Len(s) |-> EscapeLex(s[n])]

\* number of (non-overlapping) occurrences of sub in s: str.count
RECURSIVE Count(_, _)
Count(s, sub) ==
    LET n == Find(s, sub, 1)
    IN  IF n = 0 THEN 0 ELSE 1 + Count(SubSeq(s, n + Len(sub), Len(s)), sub)

\* ------------------------------------------------------------ src/utils.py
\* extract_illustrations: one description per line that holds the opening
\* token; err when such a line has no "-->" after it (line.index raises
\* ValueError)
RECURSIVE ExtractLines(_, _)
ExtractLines(lines, illustrations) ==
    IF lines = <<>> THEN [err |-> FALSE, val |-> illustrations]
    ELSE LET line == Head(lines)
         IN  IF Contains(line, <<OPEN>>)
             THEN LET start == Find(line, <<OPEN>>, 1) + 1
                      end == Find(line, <<CLOSE>>, start)
                  IN  IF end = 0 THEN [err |-> TRUE, val |-> illustrations]
                      ELSE ExtractLines(Tail(lines),
                               Append(illustrations, Strip(SubSeq(line, start, end - 1))))
             ELSE ExtractLines(Tail(lines), illustrations)

extract_illustrations(content) == ExtractLines(Split(content), <<>>)

\* os.path.dirname
DirName(p) == SubSeq(p, 1, Len(p) - 1)

\* os.path.normpath on the components of a relative path
RECURSIVE NormAcc(_, _)
NormAcc(p, acc) ==
    IF p = <<>> THEN acc
    ELSE LET c == Head(p)
         IN  IF c = "." THEN NormAcc(Tail(p), acc)
             ELSE IF c = ".." /\ acc # <<>> /\ acc[Len(acc)] # ".."
                  THEN NormAcc(Tail(p), SubSeq(acc, 1, Len(acc) - 1))
                  ELSE NormAcc(Tail(p), Append(acc, c))

NormPath(p) == NormAcc(p, <<>>)

\* the manifest dictionary built by the loop over manifest items: a later
\* item with the same id overwrites the earlier one
RECURSIVE BuildManifest(_, _)
BuildManifest(items, manifest) ==
    IF items = <<>> THEN manifest
    ELSE LET item == Head(items)
         IN  BuildManifest(Tail(items),
                 [x \in (DOMAIN manifest) \cup {item.id} |->
                     IF x = item.id THEN item.href ELSE manifest[x]])

\* a slip: a document already in the list is not appended again
RECURSIVE ResolveSpineOnce(_, _, _, _)
ResolveSpineOnce(itemrefs, manifest, opf_path, spine_items) ==
    IF itemrefs = <<>> THEN [err |-> "none", val |-> spine_items]
    ELSE LET idref == Head(itemrefs)
         IN  IF idref \notin DOMAIN manifest
             THEN [err |-> "KeyError", val |-> spine_items]
             ELSE LET path == NormPath(DirName(opf_path) \o manifest[idref])
                  IN  ResolveSpineOnce(Tail(itemrefs), manifest, opf_path,
                          IF \E n \in 1..Len(spine_items) : spine_items[n] = path
                          THEN spine_items ELSE Append(spine_items, path))

\* a slip: an idref the manifest does not declare is passed over
RECURSIVE ResolveSpineSkipsMissing(_, _, _, _)
ResolveSpineSkipsMissing(itemrefs, manifest, opf_path, spine_items) ==
    IF itemrefs = <<>> THEN [err |-> "none", val |-> spine_items]
    ELSE LET idref == Head(itemrefs)
         IN  ResolveSpineSkipsMissing(Tail(itemrefs), manifest, opf_path,
                 IF idref \notin DOMAIN manifest THEN spine_items
                 ELSE Append(spine_items,
                             NormPath(DirName(opf_path) \o manifest[idref])))

\* the loop over the spine's itemref elements; err when manifest[idref]
\* raises KeyError
RECURSIVE ResolveSpine(_, _, _, _)
ResolveSpine(itemrefs, manifest, opf_path, spine_items) ==
    IF itemrefs = <<>> THEN [err |-> "none", val |-> spine_items]
    ELSE LET idref == Head(itemrefs)
         IN  IF idref \notin DOMAIN manifest
             THEN [err |-> "KeyError", val |-> spine_items]
             ELSE ResolveSpine(Tail(itemrefs), manifest, opf_path,
                      Append(spine_items,
                             NormPath(DirName(opf_path) \o manifest[idref])))

\* where the container of the modelled packages points
OpfPath == <<"OEBPS", "content.opf">>

\* the files extractall puts into the extraction directory
ExtractAll(epub) ==
    LET meta == (<<"META-INF", "container.xml">> :> <<"container">>)
                @@ (OpfPath :> <<"opf">>)
    IN  epub.docs @@ meta @@ epub.others

\* extract_epub_spine_items: the extraction directory's files and the spine,
\* or the exception that ends it
extract_epub_spine_items(epub) ==
    LET files == ExtractAll(epub)
    IN  IF epub.container = "no_rootfile"
        THEN [err |-> "AttributeError", files |-> files, spine_items |-> <<>>]
        ELSE IF epub.container = "no_full_path"
        THEN [err |-> "KeyError", files |-> files, spine_items |-> <<>>]
        ELSE LET manifest == BuildManifest(epub.manifest, <<>>)
                 r == ResolveSpine(epub.spine, manifest, OpfPath, <<>>)
             IN  [err |-> r.err, files |-> files, spine_items |-> r.val]

\* ------------------------------------------------------- zip_epub
IsPrefix(d, p) == Len(d) <= Len(p) /\ SubSeq(p, 1, Len(d)) = d

\* the names of a set, in the order the file system lists them
Listed(names, listdir) == SelectSeq(listdir, LAMBDA n : n \in names)

RECURSIVE ConcatAll(_)
ConcatAll(ss) == IF ss = <<>> THEN <<>> ELSE Head(ss) \o ConcatAll(Tail(ss))

\* os.walk(top-down): the files of a folder, then its sub-folders in turn
RECURSIVE Walk(_, _, _)
Walk(paths, folder, listdir) ==
    LET below == {p \in paths : IsPrefix(folder, p) /\ Len(p) > Len(folder)}
        files == {p[Len(folder) + 1] : p \in {q \in below : Len(q) = Len(folder) + 1}}
        dirs == {p[Len(folder) + 1] : p \in {q \in below : Len(q) > Len(folder) + 1}}
        fs == Listed(files, listdir)
        ds == Listed(dirs, listdir)
    IN  [n \in 1..Len(fs) |-> Append(folder, fs[n])]
        \o ConcatAll([n \in 1..Len(ds) |-> Walk(paths, Append(folder, ds[n]), listdir)])

\* the entry written for the mimetype file, when it exists
MimetypeEntry(files) ==
    IF <<"mimetype">> \in DOMAIN files
    THEN <<[name |-> <<"mimetype">>, compress_type |-> "ZIP_STORED"]>>
    ELSE <<>>

\* a slip: the walk passes over nothing
SkipInWalkNever(rel_path) == FALSE

\* is a walked file passed over (the `continue` of the loop)
SkipInWalk(rel_path) == rel_path = <<"mimetype">>

\* zip_epub: the entries of the archive, in the order written
zip_epub(files, listdir) ==
    LET walked == SelectSeq(Walk(DOMAIN files, <<>>, listdir),
                            LAMBDA p : ~SkipInWalk(p))
    IN  MimetypeEntry(files)
        \o [n \in 1..Len(walked) |->
               [name |-> walked[n], compress_type |-> "ZIP_DEFLATED"]]

\* os.path.relpath(path, start) for two normalised paths
RECURSIVE CommonLen(_, _)
CommonLen(a, b) ==
    IF a # <<>> /\ b # <<>> /\ Head(a) = Head(b)
    THEN 1 + CommonLen(Tail(a), Tail(b)) ELSE 0

RelPath(path, start) ==
    LET c == CommonLen(path, start)
        r == [n \in 1..(Len(start) - c) |-> ".."] \o SubSeq(path, c + 1, Len(path))
    IN  IF r = <<>> THEN <<".">> ELSE r

\* the lexemes of a path written with "/" between its components
RECURSIVE JoinPath(_)
JoinPath(p) ==
    IF Len(p) <= 1 THEN p ELSE <<Head(p), "/">> \o JoinPath(Tail(p))

\* f"illustration_{illustration_counter}.png"
IllustrationFilename(k) == "illustration_" \o ToString(k) \o ".png"

\* the marker text process_epub searches for: f"<!-- illustration: {illustration} -->"
MarkerOf(illustration) == <<OPEN, SP>> \o illustration \o <<SP, CLOSE>>

\* the image tag process_epub puts in its place
ImgTag(img_rel_path, illustration_filename, illustration) ==
    <<"<p><img src='">> \o JoinPath(img_rel_path) \o <<"/", illustration_filename, "' alt='">>
    \o HtmlEscape(illustration) \o <<"' /></p>">>

\* ------------------------------------------------------ the inputs tried
\* what the image service can return as artifact.binary
Binaries == {<<"PNG1">>, <<"PNG2">>}

\* content documents: 399 and 400 characters of text
ShortDoc == <<PROSE>>
LongDoc == <<PROSE, "x">>

Doc1 == <<"OEBPS", "c1.html">>
Doc2 == <<"OEBPS", "Text", "c2.html">>

\* the manifest: an id declared twice, and hrefs that need normalising
Manifests ==
    { << [id |-> "c1", href |-> <<"Text", "c2.html">>],
         [id |-> "c1", href |-> <<".", "c1.html">>],
         [id |-> "c2", href |-> <<"Text", "..", "Text", "c2.html">>] >> }

\* the idref values of the spine; "zz" is declared by no manifest item
IdRefs == {"c1", "c2", "zz"}

\* the --max-files arguments: not given (0), or 1
MaxFilesArgs == {0, 1}

RECURSIVE SeqsUpTo(_, _)
SeqsUpTo(S, n) ==
    IF n = 0 THEN {<<>>}
    ELSE LET shorter == SeqsUpTo(S, n - 1)
         IN  shorter \cup {Append(q, x) : q \in shorter, x \in S}

Spines == SeqsUpTo(IdRefs, MaxSpine)

DocSets == {(Doc1 :> LongDoc) @@ (Doc2 :> d) : d \in {ShortDoc, LongDoc}}

\* the mimetype file of a package
Mimetype == (<<"mimetype">> :> <<"application/epub+zip">>)

Epubs ==
    [container : {"ok", "no_rootfile", "no_full_path"},
     manifest : Manifests, spine : Spines, docs : DocSets, others : {Mimetype}]

\* further files a package may hold, a root mimetype among them
ExtraPaths ==
    { <<"mimetype">>, <<"OEBPS", "mimetype">>, <<"META-INF", "mimetype">>,
      <<"OEBPS", "Images", "illustration_0.png">>, <<"OEBPS", "Text", "mimetype">>,
      <<"c1.html">> }

\* packages with an empty spine and any of the further files
ZipEpubs ==
    [container : {"ok"}, manifest : Manifests, spine : {<<>>},
     docs : {(Doc1 :> LongDoc) @@ (Doc2 :> ShortDoc)},
     others : {[p \in P |-> <<"data">>] : P \in SUBSET ExtraPaths}]

\* the package run again and again in SpecRerun
RerunEpub ==
    [container |-> "ok", manifest |-> CHOOSE m \in Manifests : TRUE,
     spine |-> <<"c1">>, docs |-> (Doc1 :> LongDoc) @@ (Doc2 :> ShortDoc),
     others |-> Mimetype]

\* the lines the augmentation service may add to a document: a marker as the
\* prompt asks for it, one written without the blanks, one whose closing
\* delimiter is not on the line
MarkerLines ==
    { <<NL, OPEN, SP, "a", "&", SP, CLOSE>>,
      <<NL, OPEN, "b", CLOSE>>,
      <<NL, OPEN, SP, "c">> }

\* a line of running text the service may add instead
EditedLine == <<NL, "y">>

\* data['content'] of a response: empty, the document with a line of text
\* added, or the document with marker lines added, as long as the run stays
\* within MaxMarkers markers
GeminiTexts(text, budget) ==
    {<<>>}
    \cup {t \in {text \o EditedLine}
                 \cup {text \o ConcatAll(ls) :
                          ls \in SeqsUpTo(MarkerLines, budget) \ {<<>>}} :
              Count(t, <<OPEN>>) <= budget}

\* the order in which the file system lists names
ListAsc ==
    <<"META-INF", "OEBPS", "Images", "Text", "c1.html", "c2.html", "container.xml",
      "content.opf", "illustration_0.png", "illustration_1.png", "illustration_2.png",
      "illustration_3.png", "illustration_4.png", "illustration_5.png",
      "illustration_6.png", "illustration_7.png", "illustration_8.png",
      "illustration_9.png", "mimetype">>

ListDesc == [n \in 1..Len(ListAsc) |-> ListAsc[Len(ListAsc) + 1 - n]]

\* caches an earlier run may have left in ./illustrations
LeftCaches == {<<>>, ("illustration_0.png" :> <<"PNG1">>)}

\* ------------------------------------------------------------------ state
VARIABLES
    gemini_client,          \* is the augmentation client configured
    stability_api,          \* is the image client configured
    epub,                   \* the input package
    max_files,              \* the --max-files argument, 0 when not given
    listdir,                \* the file system's listing order
    cache,                  \* ./illustrations: file name -> bytes
    pc,                     \* where process_epub is
    exception,              \* the exception that ended the run, or "none"
    files,                  \* the extraction directory: path -> content
    spine_items,
    file_idx,               \* position of the for loop in spine_items
    content,
    illustrated_content,
    illustrations,
    ill_idx,                \* position of the inner for loop in illustrations
    illustration_counter,
    attempt,                \* loop variable of gemini_illustrate_file
    output,                 \* the archive this run wrote
    run,                    \* how many times process_epub has been started
    cache0,                 \* the cache as this run found it
    processed,              \* the files read by the loop, in order
    outcomes,               \* how each processed spine position ended
    aug_sent,               \* files sent to the augmentation service
    \* of the gemini_illustrate_file call that is running or has just returned:
    aug_calls,              \* calls of generate_content
    overloads,              \* overload errors received
    slept,                  \* seconds slept
    response,               \* the text of the successful answer
    augmented,              \* the text returned for the document in hand, "" if none
    extracted,              \* all descriptions extracted in this run, in order
    resolved,               \* one record per illustration the run went through
    img_calls,              \* file names the image service was called for
    prompts                 \* per cached file, the description it was drawn from

vars ==
    <<gemini_client, stability_api, epub, max_files, listdir, cache, pc, exception,
      files, spine_items, file_idx, content, illustrated_content, illustrations,
      ill_idx, illustration_counter, attempt, output, run, cache0, processed,
      outcomes, aug_sent, aug_calls, overloads, slept, response, augmented,
      extracted, resolved, img_calls, prompts>>

env == <<gemini_client, stability_api, epub, max_files, listdir>>

NoOutput == [written |-> FALSE, entries |-> <<>>]

ImagesDir == <<"OEBPS", "Images">>

\* the values process_epub's run starts from
RunStart ==
    /\ pc = "start"
    /\ exception = "none"
    /\ files = <<>>
    /\ spine_items = <<>>
    /\ file_idx = 1
    /\ content = <<>>
    /\ illustrated_content = <<>>
    /\ illustrations = <<>>
    /\ ill_idx = 1
    /\ illustration_counter = 0
    /\ attempt = 0
    /\ output = NoOutput
    /\ processed = <<>>
    /\ outcomes = <<>>
    /\ aug_sent = {}
    /\ aug_calls = 0
    /\ overloads = 0
    /\ slept = 0
    /\ response = <<>>
    /\ augmented = <<>>
    /\ extracted = <<>>
    /\ resolved = <<>>
    /\ img_calls = {}

Init ==
    /\ gemini_client \in BOOLEAN
    /\ stability_api \in BOOLEAN
    /\ epub \in Epubs
    /\ max_files \in MaxFilesArgs
    /\ listdir = ListAsc
    /\ cache \in LeftCaches
    /\ cache0 = cache
    /\ prompts = [f \in DOMAIN cache |-> <<"earlier">>]
    /\ run = 1
    /\ RunStart

\* ------------------------------------------------------------ process_epub
\* spine_items[:max_files], taken only when max_files is given and positive
Truncate(items, m) ==
    IF m > 0 THEN SubSeq(items, 1, IF m < Len(items) THEN m ELSE Len(items))
    ELSE items

\* a slip: the limit one character too low
ShouldSkipOffByOne(text) == TextLen(text) < MinChars - 1

\* the test that skips small files
ShouldSkip(text) == TextLen(text) < MinChars

\* a slip: the run goes on without any service
NoServiceIgnored(gemini, stability) == FALSE

\* line 180: neither client could be set up
NoService(gemini, stability) == ~gemini /\ ~stability

\* lines 173-207: the service check, the extraction and the set-up of the loop
Start ==
    /\ pc = "start"
    /\ IF NoService(gemini_client, stability_api)
       THEN /\ pc' = "returned"
            /\ UNCHANGED <<exception, files, spine_items>>
       ELSE LET r == extract_epub_spine_items(epub)
            IN  /\ files' = r.files
                /\ IF r.err # "none"
                   THEN /\ pc' = "raised"
                        /\ exception' = r.err
                        /\ UNCHANGED spine_items
                   ELSE /\ pc' = "files"
                        /\ spine_items' = Truncate(r.spine_items, max_files)
                        /\ UNCHANGED exception
    /\ UNCHANGED <<env, cache, file_idx, content, illustrated_content, illustrations,
                   ill_idx, illustration_counter, attempt, output, run, cache0,
                   processed, outcomes, aug_sent, aug_calls, overloads, slept,
                   response, augmented, extracted, resolved, img_calls, prompts>>

\* the frame of the last gemini_illustrate_file call is gone
ForgetCall ==
    /\ attempt' = 0
    /\ aug_calls' = 0
    /\ overloads' = 0
    /\ slept' = 0
    /\ response' = <<>>

\* `continue`: on to the next spine item
Continue(how) ==
    /\ pc' = "files"
    /\ file_idx' = file_idx + 1
    /\ outcomes' = Append(outcomes, how)

\* a slip: the augmented text is saved before the `continue`
NoMarkersTreeSaved(file_path, text, tree) == (file_path :> text) @@ tree

\* lines 233-235: the `continue` comes before the file is opened for writing,
\* the directory stays as it is
NoMarkersTree(file_path, text, tree) == tree

\* lines 230-238: the descriptions are extracted from the augmented text
Proceed(text) ==
    LET r == extract_illustrations(text)
    IN  /\ illustrated_content' = text
        /\ augmented' = text
        /\ IF r.err
           THEN /\ pc' = "raised"
                /\ exception' = "ValueError"
                /\ UNCHANGED <<files, file_idx, outcomes, illustrations, ill_idx,
                               extracted>>
           ELSE IF r.val = <<>>
           THEN /\ Continue("NoMarkers")
                /\ files' = NoMarkersTree(spine_items[file_idx], text, files)
                /\ illustrations' = r.val
                /\ UNCHANGED <<exception, ill_idx, extracted>>
           ELSE /\ pc' = "illustrate"
                /\ illustrations' = r.val
                /\ ill_idx' = 1
                /\ extracted' = extracted \o r.val
                /\ UNCHANGED <<files, exception, file_idx, outcomes>>

\* a slip: the original content is taken and the loop body goes on
AfterAugmentFallsThrough(text) == Proceed(IF text = <<>> THEN content ELSE text)

\* lines 225-238, with the text gemini_illustrate_file returned: "" sends the
\* loop to the next item
AfterAugment(text) ==
    IF text = <<>>
    THEN /\ illustrated_content' = content
         /\ augmented' = <<>>
         /\ Continue("AugmentFailed")
         /\ UNCHANGED <<files, exception, illustrations, ill_idx, extracted>>
    ELSE Proceed(text)

\* lines 210-223: the next spine item is read; a small file is skipped, and
\* without a client gemini_illustrate_file returns "" at once
NextFile ==
    /\ pc = "files"
    /\ file_idx <= Len(spine_items)
    /\ LET file_path == spine_items[file_idx]
       IN  /\ content' = files[file_path]
           /\ processed' = Append(processed, file_path)
           /\ ForgetCall
           /\ IF ShouldSkip(files[file_path])
              THEN /\ Continue("Skipped")
                   /\ augmented' = <<>>
                   /\ UNCHANGED <<files, exception, illustrated_content, illustrations,
                                  ill_idx, extracted>>
              ELSE IF ~gemini_client
              THEN AfterAugment(<<>>)
              ELSE /\ pc' = "augment"
                   /\ augmented' = <<>>
                   /\ UNCHANGED <<files, exception, file_idx, outcomes,
                                  illustrated_content, illustrations, ill_idx, extracted>>
    /\ UNCHANGED <<env, cache, spine_items, illustration_counter, output, run,
                   cache0, aug_sent, resolved, img_calls, prompts>>

\* one pass of the retry loop in which generate_content answers: the text is
\* returned to process_epub
GeminiReturns ==
    /\ pc = "augment"
    /\ attempt < max_retries
    /\ \E text \in GeminiTexts(content, MaxMarkers - Len(extracted)) :
          /\ response' = text
          /\ AfterAugment(text)
    /\ aug_calls' = aug_calls + 1
    /\ aug_sent' = aug_sent \cup {spine_items[file_idx]}
    /\ UNCHANGED <<env, cache, spine_items, content, illustration_counter,
                   attempt, output, run, cache0, processed, overloads, slept,
                   resolved, img_calls, prompts>>

\* a slip: the loop gives up one pass early
ExhaustedEarly(n) == n >= max_retries - 1

\* is the retry loop over after this many passes
Exhausted(n) == n >= max_retries

\* one pass in which the call raises with '503' or 'overloaded' in the
\* message: sleep, then the next pass, or "" after the last one
GeminiOverloaded ==
    /\ pc = "augment"
    /\ attempt < max_retries
    /\ aug_calls' = aug_calls + 1
    /\ aug_sent' = aug_sent \cup {spine_items[file_idx]}
    /\ overloads' = overloads + 1
    /\ slept' = slept + sleep_seconds
    /\ attempt' = attempt + 1
    /\ IF Exhausted(attempt + 1)
       THEN AfterAugment(<<>>)
       ELSE UNCHANGED <<pc, files, exception, file_idx, outcomes, illustrated_content,
                        illustrations, ill_idx, augmented, extracted>>
    /\ UNCHANGED <<env, cache, spine_items, content, illustration_counter,
                   output, run, cache0, processed, response, resolved, img_calls,
                   prompts>>

\* a slip: every error is taken for an overload
GeminiFailsSleeps ==
    /\ pc = "augment"
    /\ attempt < max_retries
    /\ aug_calls' = aug_calls + 1
    /\ aug_sent' = aug_sent \cup {spine_items[file_idx]}
    /\ slept' = slept + sleep_seconds
    /\ attempt' = attempt + 1
    /\ IF Exhausted(attempt + 1)
       THEN AfterAugment(<<>>)
       ELSE UNCHANGED <<pc, files, exception, file_idx, outcomes, illustrated_content,
                        illustrations, ill_idx, augmented, extracted>>
    /\ UNCHANGED <<env, cache, spine_items, content, illustration_counter,
                   output, run, cache0, processed, overloads, response, resolved,
                   img_calls, prompts>>

\* one pass in which the call raises anything else: break, ""
GeminiFails ==
    /\ pc = "augment"
    /\ attempt < max_retries
    /\ aug_calls' = aug_calls + 1
    /\ aug_sent' = aug_sent \cup {spine_items[file_idx]}
    /\ AfterAugment(<<>>)
    /\ UNCHANGED <<env, cache, spine_items, content, illustration_counter,
                   attempt, output, run, cache0, processed, overloads, slept,
                   response, resolved, img_calls, prompts>>

\* lines 266-275: the replacement, and after the last illustration the file
\* is written back
ReplaceAndSave(illustration, illustration_filename, tree) ==
    LET file_path == spine_items[file_idx]
        img_rel_path == RelPath(ImagesDir, DirName(file_path))
        text == Replace(illustrated_content, MarkerOf(illustration),
                        ImgTag(img_rel_path, illustration_filename, illustration))
    IN  /\ illustrated_content' = text
        /\ exception' = exception
        /\ IF ill_idx = Len(illustrations)
           THEN /\ files' = (file_path :> text) @@ tree
                /\ Continue("Rewritten")
                /\ ill_idx' = ill_idx
           ELSE /\ files' = tree
                /\ ill_idx' = ill_idx + 1
                /\ UNCHANGED <<pc, file_idx, outcomes>>

\* an uncaught exception inside the loop over the illustrations
Raise(what, tree) ==
    /\ pc' = "raised"
    /\ exception' = what
    /\ files' = tree
    /\ UNCHANGED <<file_idx, outcomes, illustrated_content, ill_idx>>

\* a slip: the counter is not moved on
NextCounterStuck(k) == k

\* line 246: the counter after a file name was made from it
NextCounter(k) == k + 1

\* a slip: the cache is never looked at
CacheHitNever(illustration_filename) == FALSE

\* line 255: os.path.exists(src_illustration_path)
CacheHit(illustration_filename) == illustration_filename \in DOMAIN cache

\* lines 241-257 and 266-275: the cache holds the file name, it is copied
\* (shutil.copy may raise)
CopyCached ==
    /\ pc = "illustrate"
    /\ LET illustration == illustrations[ill_idx]
           illustration_filename == IllustrationFilename(illustration_counter)
           dest == Append(ImagesDir, illustration_filename)
       IN  /\ CacheHit(illustration_filename)
           /\ illustration_counter' = NextCounter(illustration_counter)
           /\ \E io \in {"ok", "OSError"} :
                 IF io = "ok"
                 THEN /\ ReplaceAndSave(illustration, illustration_filename,
                                        (dest :> cache[illustration_filename]) @@ files)
                      /\ resolved' = Append(resolved,
                             [pos |-> file_idx, illustration |-> illustration,
                              filename |-> illustration_filename, how |-> "cached"])
                 ELSE /\ Raise("OSError", files)
                      /\ resolved' = Append(resolved,
                             [pos |-> file_idx, illustration |-> illustration,
                              filename |-> illustration_filename, how |-> "raised"])
    /\ ForgetCall
    /\ UNCHANGED <<env, cache, spine_items, content, illustrations, output,
                   run, cache0, processed, aug_sent, augmented, extracted, img_calls,
                   prompts>>

\* what generate_illustration can come to: no client, the call raising, no
\* image artifact among the answers, or an image written to the path
GenerateResults ==
    IF ~stability_api THEN {[kind |-> "unavailable", binary |-> <<>>]}
    ELSE {[kind |-> "raises", binary |-> <<>>], [kind |-> "no_image", binary |-> <<>>]}
         \cup {[kind |-> "image", binary |-> b] : b \in Binaries}

\* a slip: the file is opened before the answers are looked through
generate_illustration_opens_first(g, path, tree) ==
    [success |-> g.kind = "image", tree |-> (path :> g.binary) @@ tree]

\* lines 70-88: True with the image written to path, or False with nothing
\* written
generate_illustration(g, path, tree) ==
    [success |-> g.kind = "image",
     tree |-> IF g.kind = "image" THEN (path :> g.binary) @@ tree ELSE tree]

\* lines 241-252 and 258-275: nothing cached under the file name, so
\* generate_illustration is called; an image is then copied into the cache
GenerateIllustration ==
    /\ pc = "illustrate"
    /\ LET illustration == illustrations[ill_idx]
           illustration_filename == IllustrationFilename(illustration_counter)
           dest == Append(ImagesDir, illustration_filename)
       IN  /\ ~CacheHit(illustration_filename)
           /\ illustration_counter' = NextCounter(illustration_counter)
           /\ img_calls' = IF stability_api THEN img_calls \cup {illustration_filename}
                           ELSE img_calls
           /\ \E g \in GenerateResults :
                 LET r == generate_illustration(g, dest, files)
                 IN  IF r.success
                     THEN \E io \in {"ok", "OSError"} :
                             IF io = "ok"
                             THEN /\ cache' = (illustration_filename :> r.tree[dest]) @@ cache
                                  /\ prompts' = (illustration_filename :> illustration) @@ prompts
                                  /\ ReplaceAndSave(illustration, illustration_filename,
                                                    r.tree)
                                  /\ resolved' = Append(resolved,
                                         [pos |-> file_idx, illustration |-> illustration,
                                          filename |-> illustration_filename,
                                          how |-> "generated"])
                             ELSE /\ UNCHANGED <<cache, prompts>>
                                  /\ Raise("OSError", r.tree)
                                  /\ resolved' = Append(resolved,
                                         [pos |-> file_idx, illustration |-> illustration,
                                          filename |-> illustration_filename,
                                          how |-> "raised"])
                     ELSE /\ UNCHANGED <<cache, prompts>>
                          /\ ReplaceAndSave(illustration, illustration_filename, r.tree)
                          /\ resolved' = Append(resolved,
                                 [pos |-> file_idx, illustration |-> illustration,
                                  filename |-> illustration_filename, how |-> "failed"])
    /\ ForgetCall
    /\ UNCHANGED <<env, spine_items, content, illustrations, output, run,
                   cache0, processed, aug_sent, augmented, extracted>>

\* lines 277-284: the loop is over, the directory is zipped
Repackage ==
    /\ pc = "files"
    /\ file_idx > Len(spine_items)
    /\ output' = [written |-> TRUE, entries |-> zip_epub(files, listdir)]
    /\ pc' = "done"
    /\ ForgetCall
    /\ UNCHANGED <<env, cache, exception, files, spine_items, file_idx, content,
                   illustrated_content, illustrations, ill_idx, illustration_counter,
                   run, cache0, processed, outcomes, aug_sent, augmented, extracted,
                   resolved, img_calls, prompts>>

Next ==
    \/ Start
    \/ NextFile
    \/ GeminiReturns
    \/ GeminiOverloaded
    \/ GeminiFails
    \/ CopyCached
    \/ GenerateIllustration
    \/ Repackage

Spec == Init /\ [][Next]_vars

\* ------------------------------------------------ zip_epub on any directory
InitZip ==
    /\ gemini_client = TRUE
    /\ stability_api = TRUE
    /\ epub \in ZipEpubs
    /\ max_files = 0
    /\ listdir \in {ListAsc, ListDesc}
    /\ cache = <<>>
    /\ cache0 = cache
    /\ prompts = <<>>
    /\ run = 1
    /\ RunStart

NextZip == Start \/ Repackage

SpecZip == InitZip /\ [][NextZip]_vars

\* ------------------------------------- several runs over one cache directory
\* process_epub is started again: a new extraction directory, the cache
\* directory as the runs before left it
NewRun ==
    /\ pc \in {"done", "raised", "returned"}
    /\ run < MaxRuns
    /\ run' = run + 1
    /\ cache0' = cache
    /\ pc' = "start"
    /\ exception' = "none"
    /\ files' = <<>>
    /\ spine_items' = <<>>
    /\ file_idx' = 1
    /\ content' = <<>>
    /\ illustrated_content' = <<>>
    /\ illustrations' = <<>>
    /\ ill_idx' = 1
    /\ illustration_counter' = 0
    /\ output' = NoOutput
    /\ processed' = <<>>
    /\ outcomes' = <<>>
    /\ aug_sent' = {}
    /\ augmented' = <<>>
    /\ extracted' = <<>>
    /\ resolved' = <<>>
    /\ img_calls' = {}
    /\ ForgetCall
    /\ UNCHANGED <<env, cache, prompts>>

InitRerun ==
    /\ gemini_client = TRUE
    /\ stability_api = TRUE
    /\ epub = RerunEpub
    /\ max_files = 0
    /\ listdir = ListAsc
    /\ cache = <<>>
    /\ cache0 = cache
    /\ prompts = <<>>
    /\ run = 1
    /\ RunStart

NextRerun == Next \/ NewRun

SpecRerun == InitRerun /\ [][NextRerun]_vars

\* ------------------------------------------------- one document, to its end
\* one pass of the loop in gemini_illustrate_file
GeminiPass == GeminiFails \/ GeminiOverloaded \/ GeminiReturns

\* a pass that can be made is made: every call of the augmentation service
\* returns or raises, and every sleep ends
InitRetry ==
    /\ gemini_client = TRUE
    /\ stability_api \in BOOLEAN
    /\ epub = RerunEpub
    /\ max_files = 0
    /\ listdir = ListAsc
    /\ cache \in LeftCaches
    /\ cache0 = cache
    /\ prompts = [f \in DOMAIN cache |-> <<"earlier">>]
    /\ run = 1
    /\ RunStart

SpecRetry == InitRetry /\ [][Next]_vars /\ WF_vars(GeminiPass)

\* ------------------------------------------------------------------ claims
\* the records of the illustrations gone through at spine position n
ResolvedAt(n) == {m \in 1..Len(resolved) : resolved[m].pos = n}

\* the spine position whose document was written back by the last step
JustRewritten ==
    /\ pc = "files"
    /\ outcomes # <<>>
    /\ outcomes[Len(outcomes)] = "Rewritten"

\* C1 (as claimed): when the spine resolves and a service is configured, no
\* failure inside the loop over the documents ends the run with an exception;
\* the run goes on to the repackaging.
C1_NoFailureAbortsRun ==
    ((gemini_client \/ stability_api) /\ pc = "raised")
        => exception \in {"KeyError", "AttributeError"} /\ spine_items = <<>>

\* C2 (as claimed): a marker whose description could not be resolved (nothing
\* cached, the image service failing or absent) is still in the text written
\* back, as often as the augmented text held it.
C2_FailedMarkerLeftVerbatim ==
    JustRewritten =>
        \A m \in ResolvedAt(Len(outcomes)) :
            resolved[m].how = "failed" =>
                Count(files[spine_items[Len(outcomes)]], MarkerOf(resolved[m].illustration))
                    = Count(augmented, MarkerOf(resolved[m].illustration))

\* C3: one counter per run: the n-th description extracted in the run (from 0)
\* is the one resolved under illustration_n.png, whatever became of the ones
\* before it; the counter is the number of descriptions gone through; and a
\* skipped, augment-failed or marker-less document has no index.
C3_OneIndexPerDescription ==
    /\ illustration_counter = Len(resolved)
    /\ Len(resolved) <= Len(extracted)
    /\ pc \in {"files", "done"} => Len(resolved) = Len(extracted)
    /\ \A m \in 1..Len(resolved) :
          /\ resolved[m].filename = "illustration_" \o ToString(m - 1) \o ".png"
          /\ resolved[m].illustration = extracted[m]
    /\ \A n \in 1..Len(outcomes) :
          outcomes[n] \in {"Skipped", "AugmentFailed", "NoMarkers"} => ResolvedAt(n) = {}

\* C3 witness: an index was given in a second document after a failed one in
\* the first
C3_Witness ==
    /\ Len(resolved) >= 2
    /\ resolved[1].pos = 1
    /\ resolved[1].how = "failed"
    /\ resolved[2].pos = 2
    /\ pc = "done"

\* C4: a file name the run found in the cache is never sent to the image
\* service in that run, the cache entry stays as it was, and the copy in the
\* image directory is the cached bytes.
C4_CachedIndexNotGenerated ==
    \A m \in 1..Len(resolved) :
        LET f == resolved[m].filename
        IN  f \in DOMAIN cache0 =>
              /\ f \notin img_calls
              /\ f \in DOMAIN cache /\ cache[f] = cache0[f]
              /\ resolved[m].how \in {"cached", "raised"}
              /\ resolved[m].how = "cached" =>
                    /\ Append(ImagesDir, f) \in DOMAIN files
                    /\ files[Append(ImagesDir, f)] = cache0[f]

\* C4 witness: a later run took from the cache an image an earlier run had
\* generated from another description
C4_Witness ==
    /\ run = 2
    /\ \E m \in 1..Len(resolved) :
          /\ resolved[m].how = "cached"
          /\ resolved[m].filename \in DOMAIN prompts
          /\ prompts[resolved[m].filename] # resolved[m].illustration

\* how often an archive names an entry
EntriesNamed(entries, name) == {n \in 1..Len(entries) : entries[n].name = name}

\* entry 0 is the stored mimetype, all others are deflated, mimetype is there once
MimetypeFirst(entries) ==
    /\ Len(entries) >= 1
    /\ entries[1].name = <<"mimetype">>
    /\ entries[1].compress_type = "ZIP_STORED"
    /\ \A n \in 2..Len(entries) : entries[n].compress_type = "ZIP_DEFLATED"
    /\ Cardinality(EntriesNamed(entries, <<"mimetype">>)) = 1

\* C5 (as claimed): every archive written has the stored mimetype as entry 0,
\* all other entries deflated, and the name mimetype exactly once.
C5_EveryArchiveMimetypeFirst == output.written => MimetypeFirst(output.entries)

\* C5 (amended): that holds of every archive written from a directory with a
\* file mimetype at its root; without one, no entry is named mimetype and all
\* entries are deflated.
C5_ArchiveMimetypeWhenPresent ==
    output.written =>
        IF <<"mimetype">> \in DOMAIN files
        THEN MimetypeFirst(output.entries)
        ELSE /\ EntriesNamed(output.entries, <<"mimetype">>) = {}
             /\ \A n \in 1..Len(output.entries) :
                   output.entries[n].compress_type = "ZIP_DEFLATED"

\* C5 witness: an archive of a directory with mimetype at the root and files
\* of that name further down, the root one listed last
C5_Witness ==
    /\ output.written
    /\ {<<"mimetype">>, <<"OEBPS", "mimetype">>, <<"c1.html">>} \subseteq DOMAIN files
    /\ listdir[1] # "mimetype"
    /\ Len(output.entries) = Cardinality(DOMAIN files)

\* C6: a document of fewer than 400 characters is never sent to the
\* augmentation service, has no description resolved and no index, ends as
\* Skipped, and its file stays what the package held.
C6_ShortDocumentUntouched ==
    \A p \in DOMAIN epub.docs :
        TextLen(epub.docs[p]) < 400 =>
          /\ p \notin aug_sent
          /\ p \in DOMAIN files => files[p] = epub.docs[p]
          /\ \A n \in 1..Len(outcomes) : spine_items[n] = p => outcomes[n] = "Skipped"
          /\ \A m \in 1..Len(resolved) : spine_items[resolved[m].pos] # p

\* C6 witness: a run that skipped a 399-character document and went on to
\* illustrate another
C6_Witness ==
    /\ pc = "done"
    /\ Len(outcomes) = 2
    /\ outcomes[1] = "Skipped"
    /\ TextLen(epub.docs[spine_items[1]]) = 399
    /\ outcomes[2] = "Rewritten"

\* the step in which gemini_illustrate_file hands "" to process_epub
AugmentFails ==
    \/ pc = "augment" /\ pc' # "augment" /\ response' = <<>>
    \/ /\ pc = "files"
       /\ file_idx <= Len(spine_items)
       /\ ~gemini_client
       /\ TextLen(files[spine_items[file_idx]]) >= 400

\* C7: when the augmentation of a document fails, that step leaves every file,
\* the counter, the cache and the image-service calls as they were, and the
\* loop is at the next spine item.
C7_AugmentFailureChangesNothing ==
    [][AugmentFails =>
          /\ files' = files
          /\ illustration_counter' = illustration_counter
          /\ img_calls' = img_calls
          /\ cache' = cache
          /\ resolved' = resolved
          /\ exception' = "none"
          /\ pc' = "files"
          /\ file_idx' = file_idx + 1]_vars

\* C7 witness: a run that went on to its end after a failed augmentation of
\* the first document
C7_Witness ==
    /\ pc = "done"
    /\ Len(outcomes) = 2
    /\ outcomes[1] = "AugmentFailed"
    /\ gemini_client
    /\ outcomes[2] = "Rewritten"

\* C8: an answer after N-1 overload errors comes with exactly N calls and N-1
\* sleeps of 5 seconds, N at most 5, and is what process_epub gets; the loop
\* gives up on overload alone only after 5 calls.
C8_RetryCounts ==
    /\ pc = "augment" => aug_calls = overloads /\ slept = 5 * overloads /\ overloads < 5
    /\ response # <<>> =>
          /\ aug_calls = overloads + 1
          /\ aug_calls <= 5
          /\ slept = 5 * (aug_calls - 1)
          /\ illustrated_content = response
    /\ (pc # "augment" /\ response = <<>> /\ aug_calls > 0 /\ overloads = aug_calls)
          => aug_calls = 5

\* C8 witness: the fifth call answered
C8_Witness == response # <<>> /\ aug_calls = 5 /\ slept = 20

\* C9 (as claimed): for an augmented text with exactly one marker, one
\* description is extracted, and the text written back holds no marker token
\* and exactly one image reference to its file with the escaped description.
C9_OneMarkerRoundTrip ==
    (JustRewritten /\ Count(augmented, <<OPEN>>) = 1) =>
        LET n == Len(outcomes)
            text == files[spine_items[n]]
            r == resolved[Len(resolved)]
        IN  /\ Len(illustrations) = 1
            /\ ~Contains(text, <<OPEN>>)
            /\ Count(text, ImgTag(RelPath(ImagesDir, DirName(spine_items[n])),
                                  r.filename, illustrations[1])) = 1

\* where the manifest of the modelled packages puts each id
DeclaredPath(idref) == IF idref = "c1" THEN Doc1 ELSE Doc2

\* C10: once the spine is resolved, spine_items is the documents of the
\* itemref elements in their order (cut to max_files when given), and the
\* loop reads the documents in that order, all of them by the end.
C10_SpineInItemrefOrder ==
    (pc \notin {"start", "returned"} /\ exception \in {"none", "ValueError", "OSError"}) =>
        /\ Len(spine_items) =
              IF max_files > 0 /\ max_files < Len(epub.spine) THEN max_files
              ELSE Len(epub.spine)
        /\ \A n \in 1..Len(spine_items) : spine_items[n] = DeclaredPath(epub.spine[n])
        /\ Len(processed) <= Len(spine_items)
        /\ \A n \in 1..Len(processed) : processed[n] = spine_items[n]
        /\ pc = "done" => processed = spine_items

\* C10 witness: a spine naming one document twice, read twice
C10_Witness ==
    /\ pc = "done"
    /\ epub.spine = <<"c1", "c1">>
    /\ processed = <<Doc1, Doc1>>

\* C11: with neither client set up the run returns before the package is
\* opened: no extraction directory, no document read or written, no service
\* called, the cache as it was found, no archive written, no exception.
C11_NoServiceAbortsBeforeExtraction ==
    (~gemini_client /\ ~stability_api) =>
        /\ pc \in {"start", "returned"}
        /\ exception = "none"
        /\ files = <<>>
        /\ spine_items = <<>>
        /\ processed = <<>>
        /\ aug_sent = {}
        /\ img_calls = {}
        /\ cache = cache0
        /\ output = NoOutput

\* C11 witness: the run has returned on a well-formed package of two
\* documents, with a cache entry lying there
C11_Witness ==
    /\ pc = "returned"
    /\ ~gemini_client
    /\ ~stability_api
    /\ epub.container = "ok"
    /\ epub.spine = <<"c1", "c2">>
    /\ cache # <<>>

\* C12: a description whose generation failed (the call raised, no image
\* among the answers, or no image client) is recorded as failed, has no file
\* under its name in the image directory and no entry in the cache.
C12_FailedGenerationWritesNothing ==
    \A m \in 1..Len(resolved) :
        resolved[m].how = "failed" =>
            /\ Append(ImagesDir, resolved[m].filename) \notin DOMAIN files
            /\ resolved[m].filename \notin DOMAIN cache

\* C12 witness: the image service was called and failed for the first
\* description, drew the second, and the run came to its end
C12_Witness ==
    /\ pc = "done"
    /\ stability_api
    /\ Len(resolved) = 2
    /\ resolved[1].how = "failed"
    /\ resolved[1].filename \in img_calls
    /\ resolved[2].how = "generated"
    /\ Append(ImagesDir, resolved[2].filename) \in DOMAIN files

\* while gemini_illustrate_file runs, every call so far was answered by an
\* overload error and followed by one sleep; never more than 5 calls
RetryInv ==
    /\ aug_calls <= max_retries
    /\ pc = "augment" =>
          /\ aug_calls = overloads
          /\ aug_calls = attempt
          /\ slept = sleep_seconds * overloads

\* one pass of the loop is one call; the loop stays only after an overload
\* error and one sleep; an answer or any other error ends it without a sleep
RetryStep ==
    pc = "augment" =>
        /\ aug_calls' = aug_calls + 1
        /\ pc' = "augment" =>
              /\ overloads' = overloads + 1
              /\ slept' = slept + sleep_seconds
        /\ overloads' = overloads =>
              /\ pc' # "augment"
              /\ slept' = slept

\* C13: for one document the augmentation service is called at most 5 times;
\* a call is repeated only after an overload error and one sleep; any other
\* error ends the calls at once, without a sleep; and whatever the service
\* does, gemini_illustrate_file comes to return.
C13_RetryPolicy ==
    /\ []RetryInv
    /\ [][RetryStep]_vars
    /\ (pc = "augment") ~> (pc # "augment")

\* C13 witness: two overload errors, then another error: three calls, two
\* sleeps, the document given up
C13_Witness ==
    /\ pc = "files"
    /\ outcomes = <<"AugmentFailed">>
    /\ aug_calls = 3
    /\ overloads = 2
    /\ slept = 2 * sleep_seconds
    /\ response = <<>>

\* C14 (as claimed): when the augmented text holds the marker of one
\* description more than once, each replacement takes one occurrence, so the
\* text written back refers exactly once to the file of each of them (stated
\* for documents all of whose descriptions got their image).
C14_DuplicatesReplacedInOrder ==
    (JustRewritten /\ \A k \in ResolvedAt(Len(outcomes)) : resolved[k].how # "failed") =>
        LET n == Len(outcomes)
            text == files[spine_items[n]]
            img_rel_path == RelPath(ImagesDir, DirName(spine_items[n]))
        IN  \A m \in ResolvedAt(n) :
                Count(augmented, MarkerOf(resolved[m].illustration)) >= 2 =>
                    Count(text, ImgTag(img_rel_path, resolved[m].filename,
                                       resolved[m].illustration)) = 1

\* the last step ended a document in which no description was found
JustNoMarkers ==
    /\ pc = "files"
    /\ outcomes # <<>>
    /\ outcomes[Len(outcomes)] = "NoMarkers"

\* C15 (as claimed): a document augmented without any description holds the
\* augmented text.
C15_NoMarkersHoldsAugmentedText ==
    JustNoMarkers => files[spine_items[Len(outcomes)]] = augmented

\* C15 (amended): the augmented text of such a document is dropped: its file
\* is not written and holds the text that was read, through to the end of
\* the run for a document the spine names once; no description of it is
\* resolved and the counter stays.
C15_NoMarkersLeavesFileAsRead ==
    /\ JustNoMarkers =>
          /\ augmented # <<>>
          /\ illustrated_content = augmented
          /\ files[spine_items[Len(outcomes)]] = content
          /\ illustration_counter = Len(resolved)
    /\ \A n \in 1..Len(outcomes) :
          outcomes[n] = "NoMarkers" =>
              /\ ResolvedAt(n) = {}
              /\ (\A k \in 1..Len(spine_items) : spine_items[k] = spine_items[n] => k = n)
                    => files[spine_items[n]] = epub.docs[spine_items[n]]

\* C15 witness: the run is over; its second document came back from the
\* service changed but without a marker, after a first one was illustrated
C15_Witness ==
    /\ pc = "done"
    /\ outcomes = <<"Rewritten", "NoMarkers">>
    /\ spine_items[1] # spine_items[2]
    /\ augmented # <<>>
    /\ augmented # content
    /\ files[spine_items[2]] = content
    /\ illustration_counter = 1

\* C16 (as claimed): extract_illustrations does not fail on a text with a
\* line that holds the opening token and no "-->" after it; the run goes on
\* with the descriptions of the other lines.
C16_UnclosedMarkerSkipped ==
    augmented # <<>> =>
        /\ ~extract_illustrations(augmented).err
        /\ exception # "ValueError"

\* a package whose container names no rootfile or no full-path, or whose
\* spine names an id the manifest does not declare
Malformed(e) ==
    \/ e.container # "ok"
    \/ \E n \in 1..Len(e.spine) :
          \A k \in 1..Len(e.manifest) : e.manifest[k].id # e.spine[n]

\* C17: on such a package (a service being set up) the spine resolution
\* raises and that ends the run: no spine, no document read, augmented or
\* written, no service called, the cache as it was, no archive; the
\* extraction directory holds the package's files as they were.
C17_MalformedPackageIsFatal ==
    (Malformed(epub) /\ (gemini_client \/ stability_api)) =>
        /\ pc \in {"start", "raised"}
        /\ pc = "start" => exception = "none" /\ files = <<>>
        /\ pc = "raised" =>
              /\ exception \in {"KeyError", "AttributeError"}
              /\ files = ExtractAll(epub)
        /\ spine_items = <<>>
        /\ processed = <<>>
        /\ outcomes = <<>>
        /\ aug_sent = {}
        /\ img_calls = {}
        /\ cache = cache0
        /\ output = NoOutput

\* C17 witness: the run has ended on a spine whose second idref is not
\* declared, though only the first document was asked for
C17_Witness ==
    /\ pc = "raised"
    /\ exception = "KeyError"
    /\ epub.container = "ok"
    /\ epub.spine = <<"c1", "zz">>
    /\ max_files = 1
    /\ gemini_client
    /\ stability_api

\* C18 (as claimed): when the directory is packed, every image reference the
\* run put into a document names a file that is in OEBPS/Images.
C18_InsertedReferencesExist ==
    pc = "done" =>
        \A m \in 1..Len(resolved) :
            LET file_path == spine_items[resolved[m].pos]
                tag == ImgTag(RelPath(ImagesDir, DirName(file_path)),
                              resolved[m].filename, resolved[m].illustration)
            IN  Contains(files[file_path], tag) =>
                    Append(ImagesDir, resolved[m].filename) \in DOMAIN files

\* C19: over all runs on one cache directory, no step removes or changes an
\* entry of the cache, and an entry appears only in the step in which the
\* image for that file name was generated, holding the bytes written to the
\* image directory.
C19_CacheWriteOnce ==
    [][/\ \A f \in DOMAIN cache : f \in DOMAIN cache' /\ cache'[f] = cache[f]
       /\ \A f \in (DOMAIN cache') \ (DOMAIN cache) :
             /\ Len(resolved') = Len(resolved) + 1
             /\ resolved'[Len(resolved')].how = "generated"
             /\ resolved'[Len(resolved')].filename = f
             /\ f \in img_calls'
             /\ cache'[f] = files'[Append(ImagesDir, f)]]_vars

\* C19 witness: a second run took index 0 from the cache for another
\* description, left that entry alone and added one for index 1
C19_Witness ==
    /\ run = 2
    /\ pc = "done"
    /\ Len(resolved) = 2
    /\ resolved[1].how = "cached"
    /\ prompts[resolved[1].filename] # resolved[1].illustration
    /\ cache[resolved[1].filename] = cache0[resolved[1].filename]
    /\ resolved[2].how = "generated"
    /\ resolved[2].filename \notin DOMAIN cache0
    /\ resolved[2].filename \in DOMAIN cache

====
